---- MODULE Spec2Model ----
(***************************************************************************)
(* A model of the PDW simulator (src/src/pdw_simulator): the Scenario run  *)
(* loop of main.py, the Radar and Sensor entities of models.py, the pulse  *)
(* pattern generators and the antenna lobe pattern of radar_properties.py  *)
(* and the detection function of sensor_properties.py.                     *)
(*                                                                         *)
(* Scales.  Time is counted in units of 100 microseconds, so that the      *)
(* 100 us pulse window of generate_pdw is 1 unit and the 1 ms sampling     *)
(* interval of the frequency / pulse-width grids is 10 units.  Angles are  *)
(* counted in degrees (a full turn, 2*pi in the source, is 360).  Power    *)
(* levels are whole dB.  Detection probabilities and the uniform draw of   *)
(* np.random.random() are both counted in hundredths.  All arithmetic is   *)
(* exact: floating-point rounding is outside the model.                    *)
(***************************************************************************)
EXTENDS Integers, Sequences, FiniteSets, TLC

VARIABLES
    \* Scenario (models.py 6-20)
    start_time, end_time, time_step, current_time, radars, sensors,
    \* run_simulation / main (main.py 46-105, 165-231): the position in the
    \* loop, the index of the (sensor, radar) pair in the nested for loops,
    \* the output table and the exception that ended the run, if any
    pc, pair, rows, err,
    \* history: the ticks run and the detections made so far
    ticks, detections,
    \* one call of a pattern generator, of detect_pulse, of sinc_lobe_pattern
    \* and of a measurement: its arguments, its local state and its result
    gen_call, detect_call, lobe_call, measure_call,
    \* one call of a rotation function (radar_properties.py 7-74)
    rotation_call

runVars == <<start_time, end_time, time_step, current_time, radars, sensors,
             pc, pair, rows, err, ticks, detections>>

callVars == <<gen_call, detect_call, lobe_call, measure_call, rotation_call>>

vars == <<runVars, callVars>>

(***************************************************************************)
(* Bounds of the model and constants of the program.                       *)
(***************************************************************************)
MaxEnd == 22
MaxStep == 2

TimeWindow == 1
GridInterval == 10
FullTurn == 360
MeasureFrequencyParams == 2
MeasureFrequencyArgs == 3

(***************************************************************************)
(* numpy helpers.                                                          *)
(***************************************************************************)
MinOf(S) == CHOOSE x \in S : \A y \in S : x <= y

CeilDiv(a, b) == -((-a) \div b)

\* np.searchsorted(a, v, side='left') on a sorted array: the number of
\* entries strictly below v, which is the 0-based index of the first entry
\* that is >= v (len(a) when there is none).
searchsorted(a, v) == Cardinality({i \in 1..Len(a) : a[i] < v})

\* np.arange(start, stop, step) for step > 0.
arange(start, stop, step) ==
    LET n == IF stop > start THEN CeilDiv(stop - start, step) ELSE 0
    IN  [i \in 1..n |-> start + (i - 1) * step]

\* Python's Optional values: None is the empty tuple, a present value x is <<x>>.
None == <<>>

Some(x) == <<x>>

the(o) == o[1]

\* int(x / y) for y > 0: truncation towards zero.
TruncDiv(a, b) == IF a >= 0 THEN a \div b ELSE -((-a) \div b)

\* np.tile(a, num_values // len(a) + 1)[:num_values] for num_values >= 0.
tile(a, num_values) == [i \in 1..num_values |-> a[((i - 1) % Len(a)) + 1]]

Abs(x) == IF x < 0 THEN -x ELSE x

(***************************************************************************)
(* Results of a generator call: a returned series (with the loop's final   *)
(* current_time), an exception, or no return at all (a loop that never     *)
(* advances).                                                              *)
(***************************************************************************)
Ok(series, cur) ==
    [kind |-> "ok", series |-> series, current_time |-> cur, err |-> "none"]

Raise(e) ==
    [kind |-> "raise", series |-> <<>>, current_time |-> 0, err |-> e]

NoReturn ==
    [kind |-> "noreturn", series |-> <<>>, current_time |-> 0, err |-> "none"]

(***************************************************************************)
(* radar_properties.py: pulse repetition interval generators.              *)
(***************************************************************************)
\* Mutant: np.arange with end_time included.
fixed_pri_inclusive(start, end, pri) ==
    LET pts == arange(start, end + 1, pri)
    IN  Ok(pts, start + Len(pts) * pri)

fixed_pri(start, end, pri) ==
    LET pts == arange(start, end, pri)
    IN  Ok(pts, start + Len(pts) * pri)

RECURSIVE stagger_pri_loop(_, _, _, _, _)
stagger_pri_loop(pts, cur, pri_index, end, pri_pattern) ==
    IF cur < end
    THEN IF Len(pri_pattern) = 0
         THEN Raise("IndexError")
         ELSE stagger_pri_loop(Append(pts, cur), cur + pri_pattern[pri_index + 1],
                               (pri_index + 1) % Len(pri_pattern), end, pri_pattern)
    ELSE Ok(pts, cur)

stagger_pri(start, end, pri_pattern) ==
    stagger_pri_loop(<<>>, start, 0, end, pri_pattern)

\* zip(a, b): the index range both lists cover.
ZipLen(a, b) == IF Len(a) < Len(b) THEN Len(a) ELSE Len(b)

\* The nested loops of switched_pri at pair i (1-based, over zip(pri_pattern,
\* repetitions)) and repetition k; i past the last pair is the head of the
\* outer while.
RECURSIVE switched_pri_loop(_, _, _, _, _, _, _)
switched_pri_loop(pts, cur, i, k, end, pri_pattern, repetitions) ==
    LET n == ZipLen(pri_pattern, repetitions)
    IN  IF i > n
        THEN IF cur < end
             THEN IF \E j \in 1..n : repetitions[j] >= 1
                  THEN switched_pri_loop(pts, cur, 1, 1, end, pri_pattern, repetitions)
                  ELSE NoReturn
             ELSE Ok(pts, cur)
        ELSE IF k > repetitions[i] \/ cur >= end
             THEN switched_pri_loop(pts, cur, i + 1, 1, end, pri_pattern, repetitions)
             ELSE switched_pri_loop(Append(pts, cur), cur + pri_pattern[i], i, k + 1,
                                    end, pri_pattern, repetitions)

\* Mutant: the repetitions are ignored, every PRI is played once.
switched_pri_once(start, end, pri_pattern, repetitions) ==
    stagger_pri_loop(<<>>, start, 0, end, pri_pattern)

switched_pri(start, end, pri_pattern, repetitions) ==
    switched_pri_loop(<<>>, start, ZipLen(pri_pattern, repetitions) + 1, 1,
                      end, pri_pattern, repetitions)

(***************************************************************************)
(* radar_properties.py: frequency and pulse-width grids (one value per     *)
(* 1 ms interval).  The pulse-width functions are line-for-line copies of  *)
(* the frequency functions.                                                *)
(***************************************************************************)
NumValues(start, end) == TruncDiv(end - start, GridInterval)

fixed_grid(start, end, value) ==
    LET n == NumValues(start, end)
    IN  IF n < 0 THEN Raise("ValueError") ELSE Ok([i \in 1..n |-> value], end)

stagger_grid(start, end, pattern) ==
    LET n == NumValues(start, end)
    IN  IF Len(pattern) = 0 THEN Raise("ZeroDivisionError")
        ELSE IF n < 0 THEN Raise("ValueError")
        ELSE Ok(tile(pattern, n), end)

\* The block built by "for v, rep in zip(pattern, repetitions): extend([v] * rep)".
RECURSIVE switched_block(_, _, _)
switched_block(pattern, repetitions, i) ==
    IF i > ZipLen(pattern, repetitions) THEN <<>>
    ELSE [k \in 1..(IF repetitions[i] > 0 THEN repetitions[i] ELSE 0) |-> pattern[i]]
         \o switched_block(pattern, repetitions, i + 1)

switched_grid(start, end, pattern, repetitions) ==
    LET block == switched_block(pattern, repetitions, 1)
        n == NumValues(start, end)
    IN  IF Len(block) = 0 THEN Raise("ZeroDivisionError")
        ELSE IF n < 0 THEN Raise("ValueError")
        ELSE Ok(tile(block, n), end)

fixed_frequency(start, end, frequency) == fixed_grid(start, end, frequency)

stagger_frequency(start, end, frequency_pattern) ==
    stagger_grid(start, end, frequency_pattern)

switched_frequency(start, end, frequency_pattern, repetitions) ==
    switched_grid(start, end, frequency_pattern, repetitions)

fixed_pulse_width(start, end, pulse_width) == fixed_grid(start, end, pulse_width)

stagger_pulse_width(start, end, pulse_width_pattern) ==
    stagger_grid(start, end, pulse_width_pattern)

switched_pulse_width(start, end, pulse_width_pattern, repetitions) ==
    switched_grid(start, end, pulse_width_pattern, repetitions)

\* stats.truncnorm(...).rvs(size=num_values): samples is what the random
\* source returns (positive values), repeated to the size asked for.  The
\* standard deviation mean * (jitter_percentage / 100) divides the bounds of
\* the distribution and is its scale.
jitter_grid(start, end, mean, jitter_percentage, samples) ==
    LET n == NumValues(start, end)
        std_dev == mean * jitter_percentage
    IN  IF std_dev = 0 THEN Raise("ZeroDivisionError")
        ELSE IF std_dev < 0 \/ n < 0 THEN Raise("ValueError")
        ELSE Ok(tile(samples, n), end)

jitter_frequency(start, end, mean_frequency, jitter_percentage, samples) ==
    jitter_grid(start, end, mean_frequency, jitter_percentage, samples)

jitter_pulse_width(start, end, mean_pulse_width, jitter_percentage, samples) ==
    jitter_grid(start, end, mean_pulse_width, jitter_percentage, samples)

(***************************************************************************)
(* scenario_geometry_functions.py: positions are <<x, y>> in metres, a     *)
(* trajectory is a list of <<t, x, y>>.                                    *)
(***************************************************************************)
move_straight_line(start_position, t, velocity, start) ==
    IF velocity = None \/ start = None
    THEN start_position
    ELSE <<start_position[1] + the(velocity)[1] * (t - the(start)),
           start_position[2] + the(velocity)[2] * (t - the(start))>>

\* The while loop "current_time <= end_time" from start_time (0 when it is
\* not given) in steps of time_step.
calculate_trajectory(start_position, end, step, velocity, start) ==
    LET first == IF start # None THEN the(start) ELSE 0
        n == IF end >= first THEN (end - first) \div step + 1 ELSE 0
    IN  [i \in 1..n |->
            LET t == first + (i - 1) * step
                p == move_straight_line(start_position, t, velocity, start)
            IN  <<t, p[1], p[2]>>]

(***************************************************************************)
(* radar_properties.py: rotation (constant rotation period), in degrees.   *)
(***************************************************************************)
constant_rotation_period(t, t0, alpha0, T_rot) ==
    alpha0 + (FullTurn * (t - t0)) \div T_rot

\* np.cos of an angle that is a multiple of 90 degrees.
cos(x) == IF x % FullTurn = 0 THEN 1 ELSE IF x % FullTurn = FullTurn \div 2 THEN -1 ELSE 0

\* varying_rotation_period, with the phase s * omega0 * t + phi0 in degrees and
\* the amplitude A in the unit of the returned angle; A is a multiple of s and
\* the phase a multiple of 90 degrees, so that A / s and the cosines are exact.
varying_rotation_period(t, t0, alpha0, T_rot, A, s, phi0) ==
    LET B == (A \div s) * (cos((s * FullTurn * t0) \div T_rot + phi0) - cos(phi0))
    IN  alpha0 + (FullTurn * (t - t0)) \div T_rot
            - (A \div s) * cos((s * FullTurn * t) \div T_rot + phi0) + B

\* The list of <<time, angle, period>> of calculate_rotation_angles for
\* rotation_type 'constant' and for a type the function does not know; the
\* scenarios checked use no 'varying' rotation, whose angles
\* varying_rotation_period computes.
calculate_rotation_angles(start, end, step, rotation_type, params) ==
    LET times == arange(start, end + step, step)
    IN  IF rotation_type = "constant"
        THEN Ok([i \in 1..Len(times) |->
                    <<times[i],
                      constant_rotation_period(times[i], params.t0, params.alpha0,
                                               params.T_rot),
                      params.T_rot>>], end)
        ELSE Raise("ValueError")

(***************************************************************************)
(* radar_properties.py: the antenna lobe pattern, for angles that are      *)
(* multiples of 90 degrees.  P_theta starts as zeros.  In the main-lobe    *)
(* region the two assignments "P_theta[mask1][...] = ..." write into the   *)
(* copy that the boolean index P_theta[mask1] returns, so P_theta keeps    *)
(* its zeros there; the back-lobe assignments "P_theta[mask2] = ..." write *)
(* into P_theta itself.  At +-180 degrees sin(theta) is 0 up to rounding,  *)
(* so |sinc(x)| is 1 and the term 20*log10(|sinc|) is 0 dB.                *)
(***************************************************************************)
Angles == {-180, -90, 0, 90, 180}

SincBackDb(theta) == 0

sinc_lobe_pattern(theta, theta_ml, P_ml, P_bl) ==
    IF theta > 90
    THEN SincBackDb(theta) + P_ml + (P_bl * (theta - 90)) \div 90
    ELSE IF theta < -90
    THEN SincBackDb(theta) + P_ml + (P_bl * (-theta - 90)) \div 90
    ELSE 0

(***************************************************************************)
(* sensor_properties.py: detection.  draw is the value of                  *)
(* np.random.random(), in hundredths (0..99).                              *)
(***************************************************************************)
\* Mutant: the scan keeps the last pair whose level the amplitude exceeds.
detect_pulse_last_match(amplitude, detection_levels, detection_probabilities, saturation_level, draw) ==
    IF amplitude > saturation_level
    THEN TRUE
    ELSE LET n == ZipLen(detection_levels, detection_probabilities)
             above == {i \in 1..n : amplitude > detection_levels[i]}
         IN  IF above = {}
             THEN FALSE
             ELSE draw < detection_probabilities[CHOOSE i \in above : \A j \in above : j <= i]

\* Mutant: the level scan runs before the saturation test.
detect_pulse_scan_first(amplitude, detection_levels, detection_probabilities, saturation_level, draw) ==
    LET n == ZipLen(detection_levels, detection_probabilities)
        above == {i \in 1..n : amplitude > detection_levels[i]}
    IN  IF above # {}
        THEN draw < detection_probabilities[MinOf(above)]
        ELSE amplitude > saturation_level

\* Mutant: the scan matches the levels the amplitude is below.
detect_pulse_below_level(amplitude, detection_levels, detection_probabilities, saturation_level, draw) ==
    IF amplitude > saturation_level
    THEN TRUE
    ELSE LET n == ZipLen(detection_levels, detection_probabilities)
             below == {i \in 1..n : amplitude < detection_levels[i]}
         IN  IF below = {}
             THEN FALSE
             ELSE draw < detection_probabilities[MinOf(below)]

detect_pulse(amplitude, detection_levels, detection_probabilities, saturation_level, draw) ==
    IF amplitude > saturation_level
    THEN TRUE
    ELSE LET n == ZipLen(detection_levels, detection_probabilities)
             above == {i \in 1..n : amplitude > detection_levels[i]}
         IN  IF above = {}
             THEN FALSE
             ELSE draw < detection_probabilities[MinOf(above)]

(***************************************************************************)
(* models.py: Radar.                                                       *)
(***************************************************************************)
Radar(config) ==
    [name |-> config.name,
     start_position |-> config.start_position,
     velocity |-> config.velocity,
     start_time |-> config.start_time,
     current_time |-> config.start_time,
     rotation_type |-> config.rotation_type,
     rotation_params |-> config.rotation_params,
     rotation_data |-> None,
     current_angle |-> config.rotation_params.alpha0,
     current_period |-> config.rotation_params.T_rot,
     power |-> config.power,
     trajectory |-> None,
     current_position |-> config.start_position,
     pri_type |-> config.pri_type,
     pri_params |-> config.pri_params,
     pulse_times |-> None,
     frequency_type |-> config.frequency_type,
     frequency_params |-> config.frequency_params,
     pulse_width_type |-> config.pulse_width_type,
     pulse_width_params |-> config.pulse_width_params,
     frequencies |-> None,
     pulse_widths |-> None,
     lobe_pattern_type |-> config.lobe_pattern.type,
     theta_ml |-> config.lobe_pattern.main_lobe_opening_angle,
     P_ml |-> config.lobe_pattern.radar_power_at_main_lobe,
     P_bl |-> config.lobe_pattern.radar_power_at_back_lobe]

\* For pri_type fixed, stagger, switched or an unknown value; the calls of
\* jitter_pri are modelled step by step by JitterIterate and JitterReturn.
Radar_calculate_pulse_times(r, end) ==
    IF r.pri_type = "fixed"
    THEN fixed_pri(r.start_time, end, r.pri_params.pri)
    ELSE IF r.pri_type = "stagger"
    THEN stagger_pri(r.start_time, end, r.pri_params.pri_pattern)
    ELSE IF r.pri_type = "switched"
    THEN switched_pri(r.start_time, end, r.pri_params.pri_pattern,
                      r.pri_params.repetitions)
    ELSE Raise("ValueError")

Radar_calculate_frequencies(r, end) ==
    IF r.frequency_type = "fixed"
    THEN fixed_frequency(r.start_time, end, r.frequency_params.frequency)
    ELSE IF r.frequency_type = "stagger"
    THEN stagger_frequency(r.start_time, end, r.frequency_params.frequency_pattern)
    ELSE IF r.frequency_type = "switched"
    THEN switched_frequency(r.start_time, end, r.frequency_params.frequency_pattern,
                            r.frequency_params.repetitions)
    ELSE IF r.frequency_type = "jitter"
    THEN jitter_frequency(r.start_time, end, r.frequency_params.mean_frequency,
                          r.frequency_params.jitter_percentage,
                          r.frequency_params.samples)
    ELSE Raise("ValueError")

Radar_calculate_pulse_widths(r, end) ==
    IF r.pulse_width_type = "fixed"
    THEN fixed_pulse_width(r.start_time, end, r.pulse_width_params.pulse_width)
    ELSE IF r.pulse_width_type = "stagger"
    THEN stagger_pulse_width(r.start_time, end,
                             r.pulse_width_params.pulse_width_pattern)
    ELSE IF r.pulse_width_type = "switched"
    THEN switched_pulse_width(r.start_time, end,
                              r.pulse_width_params.pulse_width_pattern,
                              r.pulse_width_params.repetitions)
    ELSE IF r.pulse_width_type = "jitter"
    THEN jitter_pulse_width(r.start_time, end, r.pulse_width_params.mean_pulse_width,
                            r.pulse_width_params.jitter_percentage,
                            r.pulse_width_params.samples)
    ELSE Raise("ValueError")

IsMoving(velocity) == velocity[1] # 0 \/ velocity[2] # 0

\* Radar.calculate_trajectory when none of the generators raises.
Radar_calculate_trajectory(r, end, step) ==
    [r EXCEPT
        !.trajectory =
            Some(IF IsMoving(r.velocity)
                 THEN calculate_trajectory(r.start_position, end, step,
                                           Some(r.velocity), Some(r.start_time))
                 ELSE calculate_trajectory(r.start_position, end, step, None, None)),
        !.pulse_times = Some(Radar_calculate_pulse_times(r, end).series),
        !.frequencies = Some(Radar_calculate_frequencies(r, end).series),
        !.pulse_widths = Some(Radar_calculate_pulse_widths(r, end).series),
        !.rotation_data =
            Some(calculate_rotation_angles(r.start_time, end, step, r.rotation_type,
                                           r.rotation_params).series)]

\* Whether every generator of Radar.calculate_trajectory returns a series.
Radar_constructs(r, end, step) ==
    /\ Radar_calculate_pulse_times(r, end).kind = "ok"
    /\ Radar_calculate_frequencies(r, end).kind = "ok"
    /\ Radar_calculate_pulse_widths(r, end).kind = "ok"
    /\ calculate_rotation_angles(r.start_time, end, step, r.rotation_type,
                                 r.rotation_params).kind = "ok"

\* The result of the first generator of Radar.calculate_trajectory that does
\* not return a series, in the order the method calls them.
Radar_calculate_trajectory_failure(r, end, step) ==
    LET pt == Radar_calculate_pulse_times(r, end)
        fr == Radar_calculate_frequencies(r, end)
        pw == Radar_calculate_pulse_widths(r, end)
    IN  IF pt.kind # "ok" THEN pt
        ELSE IF fr.kind # "ok" THEN fr
        ELSE IF pw.kind # "ok" THEN pw
        ELSE calculate_rotation_angles(r.start_time, end, step, r.rotation_type,
                                       r.rotation_params)

\* The times column "[t[0] for t in series]".
TimesOf(series) == [i \in 1..Len(series) |-> series[i][1]]

\* Mutant: the entries up to the one looked up are removed from the trajectory.
Radar_update_position_consuming(r, t) ==
    IF r.trajectory # None
    THEN LET traj == the(r.trajectory)
             idx == searchsorted(TimesOf(traj), t)
         IN  IF idx < Len(traj)
             THEN [r EXCEPT !.current_position = <<traj[idx + 1][2], traj[idx + 1][3]>>,
                            !.trajectory = Some(SubSeq(traj, idx + 1, Len(traj)))]
             ELSE r
    ELSE r

\* Mutant: the position read from the time and x columns of the trajectory.
Radar_update_position_columns(r, t) ==
    IF r.trajectory # None
    THEN LET traj == the(r.trajectory)
             idx == searchsorted(TimesOf(traj), t)
         IN  IF idx < Len(traj)
             THEN [r EXCEPT !.current_position = <<traj[idx + 1][1], traj[idx + 1][2]>>]
             ELSE r
    ELSE r

\* Radar.update_position as bound in the class: the definition at lines
\* 213-217 replaces the one at lines 180-191, so only the position is looked up.
Radar_update_position(r, t) ==
    IF r.trajectory # None
    THEN LET traj == the(r.trajectory)
             idx == searchsorted(TimesOf(traj), t)
         IN  IF idx < Len(traj)
             THEN [r EXCEPT !.current_position = <<traj[idx + 1][2], traj[idx + 1][3]>>]
             ELSE r
    ELSE r

\* Radar.update_rotation (called by Radar.update only).
Radar_update_rotation(r, t) ==
    IF r.rotation_data # None
    THEN LET data == the(r.rotation_data)
             idx == searchsorted(TimesOf(data), t)
         IN  IF idx < Len(data)
             THEN [r EXCEPT !.current_angle = data[idx + 1][2],
                            !.current_period = data[idx + 1][3]]
             ELSE r
    ELSE r

\* Mutant: once the pulses are exhausted the last pulse time is returned.
Radar_get_next_pulse_time_last(r, t) ==
    IF r.pulse_times = None
    THEN None
    ELSE LET pts == the(r.pulse_times)
             next_pulse_index == searchsorted(pts, t)
         IN  IF next_pulse_index < Len(pts)
             THEN Some(pts[next_pulse_index + 1])
             ELSE IF Len(pts) > 0 THEN Some(pts[Len(pts)]) ELSE None

\* None, or the first pulse time that is >= t.
Radar_get_next_pulse_time(r, t) ==
    IF r.pulse_times = None
    THEN None
    ELSE LET pts == the(r.pulse_times)
             next_pulse_index == searchsorted(pts, t)
         IN  IF next_pulse_index < Len(pts)
             THEN Some(pts[next_pulse_index + 1])
             ELSE None

\* get_current_frequency / get_current_pulse_width: None, the first entry of
\* the grid, or IndexError on an empty grid.
\* Mutant: the last entry of the grid.
FirstOfGrid_last(grid) ==
    IF grid = None THEN [kind |-> "none", value |-> 0]
    ELSE IF Len(the(grid)) = 0 THEN [kind |-> "raise", value |-> 0]
    ELSE [kind |-> "value", value |-> the(grid)[Len(the(grid))]]

FirstOfGrid(grid) ==
    IF grid = None THEN [kind |-> "none", value |-> 0]
    ELSE IF Len(the(grid)) = 0 THEN [kind |-> "raise", value |-> 0]
    ELSE [kind |-> "value", value |-> the(grid)[1]]

Radar_get_current_frequency(r) == FirstOfGrid(r.frequencies)

Radar_get_current_pulse_width(r) == FirstOfGrid(r.pulse_widths)

(***************************************************************************)
(* sensor_properties.py: error models.  An error configuration is a record *)
(* [type, error, rate].                                                    *)
(***************************************************************************)
KnownErrorTypes == {"constant", "linear", "sinus", "gaussian", "uniform"}

\* create_error_model: the model, or ValueError for an unknown type.
create_error_model(error_config) ==
    IF error_config.type \in KnownErrorTypes
    THEN [kind |-> "ok", err |-> "none", model |-> error_config]
    ELSE [kind |-> "raise", err |-> "ValueError", model |-> error_config]

\* The lambdas of the "constant" and "linear" models, applied to t.
systematic_error(model, t) ==
    IF model.type = "linear" THEN model.error + model.rate * t ELSE model.error

(***************************************************************************)
(* models.py: Sensor.  Of the five pairs of error models the TOA pair is   *)
(* kept; the other four are built by the same create_error_model calls.    *)
(***************************************************************************)
\* Whether Sensor.__init__ returns: every create_error_model call succeeds.
Sensor_constructs(config) ==
    /\ create_error_model(config.toa_error.systematic).kind = "ok"
    /\ create_error_model(config.toa_error.arbitrary).kind = "ok"

Sensor(config) ==
    [name |-> config.name,
     toa_error_syst |-> config.toa_error.systematic,
     toa_error_arb |-> config.toa_error.arbitrary,
     start_position |-> config.start_position,
     velocity |-> config.velocity,
     start_time |-> config.start_time,
     trajectory |-> None,
     current_position |-> config.start_position,
     current_time |-> config.start_time,
     saturation_level |-> config.saturation_level,
     detection_levels |-> config.detection_probability.level,
     detection_probabilities |-> config.detection_probability.probability]

Sensor_calculate_trajectory(s, end, step) ==
    [s EXCEPT
        !.trajectory =
            Some(IF IsMoving(s.velocity)
                 THEN calculate_trajectory(s.start_position, end, step,
                                           Some(s.velocity), Some(s.start_time))
                 ELSE calculate_trajectory(s.start_position, end, step, None, None))]

Sensor_update_position(s, t) ==
    LET s1 == [s EXCEPT !.current_time = t]
    IN  IF s.trajectory # None
        THEN LET traj == the(s.trajectory)
                 idx == searchsorted(TimesOf(traj), t)
             IN  IF idx < Len(traj)
                 THEN [s1 EXCEPT !.current_position =
                                     <<traj[idx + 1][2], traj[idx + 1][3]>>]
                 ELSE s1
        ELSE s1

Sensor_detect_pulse(s, amplitude, draw) ==
    detect_pulse(amplitude, s.detection_levels, s.detection_probabilities,
                 s.saturation_level, draw)

\* A call of Sensor.measure_frequency(self, true_frequency, t) with nargs
\* positional arguments raises TypeError unless nargs matches its parameters.
Sensor_measure_frequency_accepts(nargs) == nargs = MeasureFrequencyParams

(***************************************************************************)
(* main.py: generate_pdw, for entities on a common axis.                   *)
(***************************************************************************)
\* np.linalg.norm of an axis-aligned vector.
norm(v) == Abs(v[1]) + Abs(v[2])

\* np.arctan2(y, x) of an axis-aligned vector, in degrees.
arctan2(y, x) ==
    IF y = 0 THEN (IF x < 0 THEN 180 ELSE 0)
    ELSE IF y > 0 THEN 90 ELSE -90

ReturnNone(detected) ==
    [kind |-> "none", err |-> "none", detected |-> detected, pdw |-> <<>>]

ReturnRaise(e, detected) ==
    [kind |-> "raise", err |-> e, detected |-> detected, pdw |-> <<>>]

ReturnPdw(pdw) ==
    [kind |-> "pdw", err |-> "none", detected |-> TRUE, pdw |-> <<pdw>>]

\* Mutant: the next pulse is taken however far ahead it lies.
generate_pdw_any_pulse(sensor, radar, t, draw) ==
    LET distance_vector == <<sensor.current_position[1] - radar.current_position[1],
                             sensor.current_position[2] - radar.current_position[2]>>
        distance == norm(distance_vector)
        angle == arctan2(distance_vector[2], distance_vector[1])
        pulse_time == Radar_get_next_pulse_time(radar, t)
    IN  IF pulse_time = None
        THEN ReturnNone(FALSE)
        ELSE IF radar.lobe_pattern_type # "Sinc"
        THEN ReturnRaise("ValueError", FALSE)
        ELSE LET true_amplitude == sinc_lobe_pattern(angle, radar.theta_ml,
                                                     radar.P_ml, radar.P_bl)
                 true_frequency == Radar_get_current_frequency(radar)
                 true_pw == Radar_get_current_pulse_width(radar)
             IN  IF true_frequency.kind = "raise" \/ true_pw.kind = "raise"
                 THEN ReturnRaise("IndexError", FALSE)
                 ELSE IF ~Sensor_detect_pulse(sensor, true_amplitude, draw)
                 THEN ReturnNone(FALSE)
                 ELSE IF ~Sensor_measure_frequency_accepts(MeasureFrequencyArgs)
                 THEN ReturnRaise("TypeError", TRUE)
                 ELSE ReturnPdw([pulse_time |-> the(pulse_time),
                                 distance |-> distance,
                                 Amplitude |-> true_amplitude,
                                 Frequency |-> true_frequency.value,
                                 PulseWidth |-> true_pw.value,
                                 AOA |-> angle])

\* The outcome of generate_pdw(sensor, radar, current_time) when the random
\* draw of detect_pulse is draw: None, a PDW or an exception.  "detected"
\* tells whether a pulse was in the window and detect_pulse returned True.
generate_pdw(sensor, radar, t, draw) ==
    LET distance_vector == <<sensor.current_position[1] - radar.current_position[1],
                             sensor.current_position[2] - radar.current_position[2]>>
        distance == norm(distance_vector)
        angle == arctan2(distance_vector[2], distance_vector[1])
        pulse_time == Radar_get_next_pulse_time(radar, t)
    IN  IF pulse_time = None \/ the(pulse_time) > t + TimeWindow
        THEN ReturnNone(FALSE)
        ELSE IF radar.lobe_pattern_type # "Sinc"
        THEN ReturnRaise("ValueError", FALSE)
        ELSE LET true_amplitude == sinc_lobe_pattern(angle, radar.theta_ml,
                                                     radar.P_ml, radar.P_bl)
                 true_frequency == Radar_get_current_frequency(radar)
                 true_pw == Radar_get_current_pulse_width(radar)
             IN  IF true_frequency.kind = "raise" \/ true_pw.kind = "raise"
                 THEN ReturnRaise("IndexError", FALSE)
                 ELSE IF ~Sensor_detect_pulse(sensor, true_amplitude, draw)
                 THEN ReturnNone(FALSE)
                 ELSE IF ~Sensor_measure_frequency_accepts(MeasureFrequencyArgs)
                 THEN ReturnRaise("TypeError", TRUE)
                 ELSE ReturnPdw([pulse_time |-> the(pulse_time),
                                 distance |-> distance,
                                 Amplitude |-> true_amplitude,
                                 Frequency |-> true_frequency.value,
                                 PulseWidth |-> true_pw.value,
                                 AOA |-> angle])

(***************************************************************************)
(* models.py: Scenario.update.                                             *)
(***************************************************************************)
\* Mutant: the time step added twice.
Scenario_update_time_twice(t, step) == t + step + step

Scenario_update_time(t, step) == t + step

Scenario_update_radars(rs, t) ==
    [i \in 1..Len(rs) |-> Radar_update_position(rs[i], t)]

Scenario_update_sensors(ss, t) ==
    [i \in 1..Len(ss) |-> Sensor_update_position(ss[i], t)]

(***************************************************************************)
(* The scenarios the run loop is checked on (main.py create_scenario):     *)
(* every combination of a horizon, a time step, a radar list and a sensor  *)
(* list.                                                                   *)
(***************************************************************************)
RadarConfig(name, x, vx, pri_type, pri_params, P_ml) ==
    [name |-> name, start_position |-> <<x, 0>>, velocity |-> <<vx, 0>>,
     start_time |-> 0, rotation_type |-> "constant",
     rotation_params |-> [t0 |-> 0, alpha0 |-> 0, T_rot |-> 4],
     power |-> 1000, pri_type |-> pri_type, pri_params |-> pri_params,
     frequency_type |-> "fixed", frequency_params |-> [frequency |-> 15],
     pulse_width_type |-> "fixed", pulse_width_params |-> [pulse_width |-> 1],
     lobe_pattern |-> [type |-> "Sinc", main_lobe_opening_angle |-> 5,
                       radar_power_at_main_lobe |-> P_ml,
                       radar_power_at_back_lobe |-> -20]]

RadarFixed == RadarConfig("R1", 0, 0, "fixed", [pri |-> 3], 0)

RadarStagger == RadarConfig("R2", 2, 1, "stagger", [pri_pattern |-> <<2, 5>>], 3)

\* A lobe pattern type the program does not know.
RadarUnknownLobe ==
    [RadarConfig("R3", 0, 0, "fixed", [pri |-> 3], 0) EXCEPT !.lobe_pattern.type = "Gauss"]

\* Frequency and pulse width that vary from one grid entry to the next.
RadarStaggerFrequency ==
    [RadarConfig("R4", 0, 0, "fixed", [pri |-> 4], 0) EXCEPT
        !.frequency_type = "stagger",
        !.frequency_params = [frequency_pattern |-> <<15, 17>>],
        !.pulse_width_type = "switched",
        !.pulse_width_params = [pulse_width_pattern |-> <<1, 2>>,
                                repetitions |-> <<1, 2>>]]

\* A PRI type the program does not know.
RadarUnknownPri == RadarConfig("R5", 0, 0, "burst", [pri |-> 3], 0)

RadarJitterFrequency ==
    [RadarConfig("R6", 0, 0, "fixed", [pri |-> 4], 0) EXCEPT
        !.frequency_type = "jitter",
        !.frequency_params = [mean_frequency |-> 15, jitter_percentage |-> 5,
                              samples |-> <<16, 14>>],
        !.pulse_width_type = "jitter",
        !.pulse_width_params = [mean_pulse_width |-> 2, jitter_percentage |-> 5,
                                samples |-> <<1, 3>>]]

NoError == [type |-> "constant", error |-> 0, rate |-> 0]

SensorConfig(name, x, vx, saturation_level, level, probability) ==
    [name |-> name, start_position |-> <<x, 0>>, velocity |-> <<vx, 0>>,
     start_time |-> 0, saturation_level |-> saturation_level,
     detection_probability |-> [level |-> level, probability |-> probability],
     toa_error |-> [systematic |-> NoError,
                    arbitrary |-> [type |-> "uniform", error |-> 0, rate |-> 0]]]

\* Saturation below every received amplitude: detects with certainty.
SensorSure == SensorConfig("S1", 10, 0, -70, <<-80>>, <<100>>)

\* Behind the radars, detecting by a draw.
SensorDraw == SensorConfig("S2", -10, -1, 10, <<5, -30>>, <<100, 50>>)

\* Every level above every received amplitude: never detects.
SensorDeaf == SensorConfig("S3", 10, 0, 30, <<20>>, <<100>>)

\* Two detection levels and one probability.
SensorMismatch == SensorConfig("S4", 10, 0, 30, <<20, -60>>, <<100>>)

\* An error model type the program does not know.
SensorUnknownError ==
    [SensorConfig("S5", 10, 0, 30, <<20>>, <<100>>) EXCEPT
        !.toa_error.systematic.type = "quadratic"]

RadarLists == {<<RadarFixed>>, <<RadarStagger>>, <<RadarFixed, RadarStagger>>,
               <<RadarUnknownLobe>>, <<RadarStaggerFrequency>>,
               <<RadarFixed, RadarUnknownPri>>, <<RadarJitterFrequency>>}

\* One kilometre from the origin, with one detection level of -20 dB.
SensorFar == SensorConfig("S6", 1000, 0, 10, <<-20>>, <<100>>)

SensorLists == {<<SensorSure>>, <<SensorDraw>>, <<SensorDeaf>>,
                <<SensorDraw, SensorSure>>, <<SensorDeaf, SensorDraw>>,
                <<SensorMismatch>>, <<SensorSure, SensorUnknownError>>,
                <<SensorFar>>}

StartTimes == {0, 1}

Draws == {0, 50, 99}

\* create_scenario when every constructor and generator returns.
create_scenario(start, end, step, radar_configs, sensor_configs) ==
    [radars |-> [i \in 1..Len(radar_configs) |->
                    Radar_calculate_trajectory(Radar(radar_configs[i]), end, step)],
     sensors |-> [i \in 1..Len(sensor_configs) |->
                    Sensor_calculate_trajectory(Sensor(sensor_configs[i]), end, step)]]

\* The exception that ends create_scenario, "none" when it returns: the
\* radars are built first, each by Radar(...) and calculate_trajectory, then
\* the sensors.
create_scenario_error(end, step, radar_configs, sensor_configs) ==
    LET bad_radars == {i \in 1..Len(radar_configs) :
                          ~Radar_constructs(Radar(radar_configs[i]), end, step)}
        bad_sensors == {i \in 1..Len(sensor_configs) :
                           ~Sensor_constructs(sensor_configs[i])}
    IN  IF bad_radars # {}
        THEN Radar_calculate_trajectory_failure(
                 Radar(radar_configs[MinOf(bad_radars)]), end, step).err
        ELSE IF bad_sensors # {} THEN "ValueError"
        ELSE "none"

\* The configuration is loaded: radars and sensors hold config['radars'] and
\* config['sensors'] until create_scenario has built the entities.
Init ==
    /\ start_time \in StartTimes
    /\ end_time \in start_time..MaxEnd
    /\ time_step \in 1..MaxStep
    /\ current_time = start_time
    /\ radars \in RadarLists
    /\ sensors \in SensorLists
    /\ pc = "create"
    /\ pair = 0
    /\ rows = <<>>
    /\ err = "none"
    /\ ticks = 0
    /\ detections = 0
    /\ gen_call = None
    /\ detect_call = None
    /\ lobe_call = None
    /\ measure_call = None
    /\ rotation_call = None

\* "scenario = create_scenario(config)": the entities are built and their
\* series precomputed, or the first failing constructor ends the program.
CreateScenario ==
    /\ pc = "create"
    /\ LET e == create_scenario_error(end_time, time_step, radars, sensors)
       IN  IF e = "none"
           THEN /\ radars' = create_scenario(start_time, end_time, time_step,
                                             radars, sensors).radars
                /\ sensors' = create_scenario(start_time, end_time, time_step,
                                              radars, sensors).sensors
                /\ pc' = "loop"
                /\ err' = err
           ELSE /\ pc' = "config_error"
                /\ err' = e
                /\ UNCHANGED <<radars, sensors>>
    /\ UNCHANGED <<start_time, end_time, time_step, current_time, pair, rows, ticks,
                   detections>>
    /\ UNCHANGED callVars

(***************************************************************************)
(* main.py: the run loop of run_simulation / main.                         *)
(***************************************************************************)
NumPairs == Len(sensors) * Len(radars)

\* "while scenario.current_time <= scenario.end_time: scenario.update()"
LoopEnter ==
    /\ pc = "loop"
    /\ current_time <= end_time
    /\ current_time' = Scenario_update_time(current_time, time_step)
    /\ radars' = Scenario_update_radars(radars, current_time')
    /\ sensors' = Scenario_update_sensors(sensors, current_time')
    /\ pc' = "pairs"
    /\ pair' = 0
    /\ ticks' = ticks + 1
    /\ UNCHANGED <<start_time, end_time, time_step, rows, err, detections>>
    /\ UNCHANGED callVars

\* One iteration of "for sensor ...: for radar ...: pdw = generate_pdw(...)".
GeneratePdw ==
    /\ pc = "pairs"
    /\ pair < NumPairs
    /\ \E draw \in Draws :
          LET sensor == sensors[(pair \div Len(radars)) + 1]
              radar == radars[(pair % Len(radars)) + 1]
              out == generate_pdw(sensor, radar, current_time, draw)
          IN  /\ detections' = IF out.detected THEN detections + 1 ELSE detections
              /\ IF out.kind = "raise"
                 THEN /\ pc' = "raised"
                      /\ err' = out.err
                      /\ UNCHANGED <<pair, rows>>
                 ELSE /\ rows' = IF out.kind = "pdw"
                                 THEN Append(rows, [Time |-> current_time,
                                                    SensorID |-> sensor.name,
                                                    RadarID |-> radar.name,
                                                    pdw |-> the(out.pdw)])
                                 ELSE rows
                      /\ pair' = pair + 1
                      /\ UNCHANGED <<pc, err>>
    /\ UNCHANGED <<start_time, end_time, time_step, current_time, radars, sensors,
                   ticks>>
    /\ UNCHANGED callVars

\* "scenario.current_time += scenario.time_step" at the end of the loop body.
LoopAdvance ==
    /\ pc = "pairs"
    /\ pair = NumPairs
    /\ current_time' = current_time + time_step
    /\ pc' = "loop"
    /\ UNCHANGED <<start_time, end_time, time_step, radars, sensors, pair, rows, err,
                   ticks, detections>>
    /\ UNCHANGED callVars

\* The loop condition fails: the table is handed to the exporter.
LoopExit ==
    /\ pc = "loop"
    /\ current_time > end_time
    /\ pc' = "done"
    /\ UNCHANGED <<start_time, end_time, time_step, current_time, radars, sensors,
                   pair, rows, err, ticks, detections>>
    /\ UNCHANGED callVars

Next ==
    \/ CreateScenario
    \/ LoopEnter
    \/ GeneratePdw
    \/ LoopAdvance
    \/ LoopExit

Spec == Init /\ [][Next]_vars

(***************************************************************************)
(* Properties of the run loop.                                             *)
(***************************************************************************)

\* C1: whenever a radar has a pulse inside the window and detect_pulse
\* returns True, generate_pdw completes without raising and exactly one row
\* is appended for that (tick, sensor, radar): the table holds one row per
\* detection and no detection ends the run with an exception.
C1_RowPerDetection ==
    /\ Len(rows) = detections
    /\ ~(pc = "raised" /\ detections > 0)

\* C2: when the run loop has finished, the number of ticks it ran equals
\* ceil((end_time - start_time) / time_step).
C2_TickCount ==
    pc = "done" => ticks = CeilDiv(end_time - start_time, time_step)

\* C3: when the run loop has stopped, by its condition or by an exception out
\* of its body, current_time is strictly greater than end_time.
C3_StopsPastEnd ==
    pc \in {"done", "raised"} => current_time > end_time

\* C4: after every Scenario.update, each radar's current_angle and
\* current_period are the (angle, period) entry of rotation_data selected for
\* the new current_time (a refresh of the rotation changes nothing).
C4_RotationRefreshed ==
    pc = "pairs" =>
        \A i \in 1..Len(radars) :
            /\ radars[i].current_angle =
                   Radar_update_rotation(radars[i], current_time).current_angle
            /\ radars[i].current_period =
                   Radar_update_rotation(radars[i], current_time).current_period

(***************************************************************************)
(* The run loop at rest, for the specifications of single calls.           *)
(***************************************************************************)
RunIdle ==
    /\ start_time = 0
    /\ end_time = 0
    /\ time_step = 1
    /\ current_time = 0
    /\ radars = <<>>
    /\ sensors = <<>>
    /\ pc = "idle"
    /\ pair = 0
    /\ rows = <<>>
    /\ err = "none"
    /\ ticks = 0
    /\ detections = 0

(***************************************************************************)
(* detect_pulse called once on arguments drawn from bounded sets: levels   *)
(* in any order, level and probability lists of equal and of different     *)
(* lengths, saturation levels above, between and below the levels.         *)
(***************************************************************************)
DetectAmplitudes == {-90, -75, -60, -50, 0}

DetectLevelLists == {<<>>, <<-80>>, <<-60, -80>>, <<-80, -60>>}

DetectProbabilityLists == {<<>>, <<100>>, <<0>>, <<50, 100>>, <<100, 0>>}

DetectSaturations == {-95, -85, -70, -40}

InitDetect ==
    /\ RunIdle
    /\ gen_call = None
    /\ lobe_call = None
    /\ measure_call = None
    /\ rotation_call = None
    /\ \E a \in DetectAmplitudes, l \in DetectLevelLists,
          p \in DetectProbabilityLists, s \in DetectSaturations, d \in Draws :
          detect_call = Some([amplitude |-> a, detection_levels |-> l,
                              detection_probabilities |-> p, saturation_level |-> s,
                              draw |-> d, result |-> None])

DetectCall ==
    /\ detect_call # None
    /\ the(detect_call).result = None
    /\ LET c == the(detect_call)
       IN  detect_call' =
               Some([c EXCEPT !.result =
                        Some(detect_pulse(c.amplitude, c.detection_levels,
                                          c.detection_probabilities,
                                          c.saturation_level, c.draw))])
    /\ UNCHANGED <<runVars, gen_call, lobe_call, measure_call, rotation_call>>

NextDetect == DetectCall

SpecDetect == InitDetect /\ [][NextDetect]_vars

DetectReturned == detect_call # None /\ the(detect_call).result # None

DetectResult == the(the(detect_call).result)

\* The lowest of a non-empty list of levels.
LowestLevel(levels) == MinOf({levels[i] : i \in 1..Len(levels)})

\* C5: detect_pulse returns True for every amplitude strictly above
\* saturation_level, whatever the levels, the probabilities (0 included) and
\* the draw are.
C5_AboveSaturationDetected ==
    (DetectReturned /\ the(detect_call).amplitude > the(detect_call).saturation_level)
        => DetectResult = TRUE

\* C5 witness: a call above saturation whose level scan would have matched a
\* level of probability 0, and which returned True.
C5_Witness ==
    /\ DetectReturned
    /\ the(detect_call).amplitude > the(detect_call).saturation_level
    /\ the(detect_call).detection_levels = <<-80>>
    /\ the(detect_call).detection_probabilities = <<0>>
    /\ the(detect_call).amplitude > -80
    /\ DetectResult = TRUE

\* C6 as stated: detect_pulse returns False for every amplitude below the
\* lowest detection level, for every saturation level, level list,
\* probability list and draw.
C6_BelowLowestNeverDetected ==
    (/\ DetectReturned
     /\ Len(the(detect_call).detection_levels) > 0
     /\ the(detect_call).amplitude < LowestLevel(the(detect_call).detection_levels))
        => DetectResult = FALSE

\* C6 amended: detect_pulse returns False for every amplitude that is below
\* the lowest detection level and not above saturation_level, for every
\* level list, probability list and draw.
C6_BelowLowestAndSaturationNeverDetected ==
    (/\ DetectReturned
     /\ Len(the(detect_call).detection_levels) > 0
     /\ the(detect_call).amplitude < LowestLevel(the(detect_call).detection_levels)
     /\ the(detect_call).amplitude <= the(detect_call).saturation_level)
        => DetectResult = FALSE

\* C6 witness: an amplitude below both levels and below saturation, with
\* probabilities that would detect at a draw of 0, returned False.
C6_Witness ==
    /\ DetectReturned
    /\ the(detect_call).detection_levels = <<-60, -80>>
    /\ the(detect_call).detection_probabilities = <<50, 100>>
    /\ the(detect_call).amplitude = -90
    /\ the(detect_call).saturation_level = -85
    /\ the(detect_call).draw = 0
    /\ DetectResult = FALSE

(***************************************************************************)
(* One call of a pattern generator on arguments drawn from bounded sets.   *)
(* fixed, stagger and switched series are computed in one step; jitter_pri *)
(* draws a random number in every iteration of its loop, so its loop runs  *)
(* one iteration per step.  The time unit of a PRI call is chosen so that  *)
(* 10% of every mean PRI is a whole number.                                *)
(***************************************************************************)
MaxGenEnd == 22

GenStarts == {0, 1}

PriValues == {2, 3, 5}

Patterns == {<<>>, <<3>>, <<2, 5>>, <<4, 2, 3>>}

RepetitionLists == {<<>>, <<2>>, <<2, 1>>, <<0, 2>>, <<0>>}

MeanPris == {10, 20}

JitterPercentages == {-5, 0, 5}

\* Values of np.random.normal(0, std_dev) for std_dev > 0.
JitterDraws == {-30, -9, 0, 5}

GridEnds == {0, 5, 10, 25, 40}

GenCall(channel, type, start, end, value, pattern, repetitions, jitter_percentage) ==
    [channel |-> channel, type |-> type, start |-> start, end |-> end,
     value |-> value, pattern |-> pattern, repetitions |-> repetitions,
     jitter_percentage |-> jitter_percentage,
     pulse_times |-> <<>>, current_time |-> start, result |-> None]

GenCalls ==
    {GenCall("pri", "fixed", s, e, v, <<>>, <<>>, 0) :
        s \in GenStarts, e \in 0..MaxGenEnd, v \in PriValues}
    \cup {GenCall("pri", "stagger", s, e, 0, p, <<>>, 0) :
        s \in GenStarts, e \in 0..MaxGenEnd, p \in Patterns}
    \cup {GenCall("pri", "switched", s, e, 0, p, r, 0) :
        s \in GenStarts, e \in 0..MaxGenEnd, p \in Patterns, r \in RepetitionLists}
    \cup {GenCall("pri", "jitter", s, e, m, <<>>, <<>>, j) :
        s \in GenStarts, e \in 0..MaxGenEnd, m \in MeanPris, j \in JitterPercentages}
    \cup {GenCall(ch, "fixed", s, e, v, <<>>, <<>>, 0) :
        ch \in {"frequency", "pulse_width"}, s \in GenStarts, e \in GridEnds,
        v \in PriValues}
    \cup {GenCall(ch, "stagger", s, e, 0, p, <<>>, 0) :
        ch \in {"frequency", "pulse_width"}, s \in GenStarts, e \in GridEnds,
        p \in Patterns}
    \cup {GenCall(ch, "switched", s, e, 0, p, r, 0) :
        ch \in {"frequency", "pulse_width"}, s \in GenStarts, e \in GridEnds,
        p \in Patterns, r \in RepetitionLists}

InitGen ==
    /\ RunIdle
    /\ detect_call = None
    /\ lobe_call = None
    /\ measure_call = None
    /\ rotation_call = None
    /\ \E c \in GenCalls : gen_call = Some(c)

GenPending(channel) ==
    /\ gen_call # None
    /\ the(gen_call).channel = channel
    /\ the(gen_call).result = None

\* fixed_pri, stagger_pri or switched_pri, as Radar.calculate_pulse_times
\* calls them.
GenPri ==
    /\ GenPending("pri")
    /\ the(gen_call).type \in {"fixed", "stagger", "switched"}
    /\ LET c == the(gen_call)
           res == IF c.type = "fixed" THEN fixed_pri(c.start, c.end, c.value)
                  ELSE IF c.type = "stagger" THEN stagger_pri(c.start, c.end, c.pattern)
                  ELSE switched_pri(c.start, c.end, c.pattern, c.repetitions)
       IN  gen_call' = Some([c EXCEPT !.result = Some(res)])
    /\ UNCHANGED <<runVars, detect_call, lobe_call, measure_call, rotation_call>>

\* Mutant: the jittered PRI without its floor.
jittered_pri_unclamped(mean_pri, jitter) == mean_pri + jitter

\* "jittered_pri = max(mean_pri + jitter, mean_pri * 0.1)"
jittered_pri(mean_pri, jitter) ==
    IF mean_pri + jitter > mean_pri \div 10 THEN mean_pri + jitter ELSE mean_pri \div 10

\* One iteration of the while loop of jitter_pri: the pulse is appended, the
\* jitter is drawn (np.random.normal raises ValueError for a negative
\* std_dev and returns 0 for std_dev = 0) and current_time advances.
JitterIterate ==
    /\ GenPending("pri")
    /\ the(gen_call).type = "jitter"
    /\ the(gen_call).current_time < the(gen_call).end
    /\ LET c == the(gen_call)
           std_dev_sign == c.value * c.jitter_percentage
       IN  \E jitter \in (IF std_dev_sign = 0 THEN {0} ELSE JitterDraws) :
              gen_call' =
                  Some(IF std_dev_sign < 0
                       THEN [c EXCEPT !.pulse_times = Append(@, c.current_time),
                                      !.result = Some(Raise("ValueError"))]
                       ELSE [c EXCEPT !.pulse_times = Append(@, c.current_time),
                                      !.current_time = @ + jittered_pri(c.value, jitter)])
    /\ UNCHANGED <<runVars, detect_call, lobe_call, measure_call, rotation_call>>

\* The loop condition of jitter_pri fails: the pulse times are returned.
JitterReturn ==
    /\ GenPending("pri")
    /\ the(gen_call).type = "jitter"
    /\ the(gen_call).current_time >= the(gen_call).end
    /\ LET c == the(gen_call)
       IN  gen_call' = Some([c EXCEPT !.result = Some(Ok(c.pulse_times, c.current_time))])
    /\ UNCHANGED <<runVars, detect_call, lobe_call, measure_call, rotation_call>>

GenFrequency ==
    /\ GenPending("frequency")
    /\ LET c == the(gen_call)
           res == IF c.type = "fixed" THEN fixed_frequency(c.start, c.end, c.value)
                  ELSE IF c.type = "stagger"
                  THEN stagger_frequency(c.start, c.end, c.pattern)
                  ELSE switched_frequency(c.start, c.end, c.pattern, c.repetitions)
       IN  gen_call' = Some([c EXCEPT !.result = Some(res)])
    /\ UNCHANGED <<runVars, detect_call, lobe_call, measure_call, rotation_call>>

GenPulseWidth ==
    /\ GenPending("pulse_width")
    /\ LET c == the(gen_call)
           res == IF c.type = "fixed" THEN fixed_pulse_width(c.start, c.end, c.value)
                  ELSE IF c.type = "stagger"
                  THEN stagger_pulse_width(c.start, c.end, c.pattern)
                  ELSE switched_pulse_width(c.start, c.end, c.pattern, c.repetitions)
       IN  gen_call' = Some([c EXCEPT !.result = Some(res)])
    /\ UNCHANGED <<runVars, detect_call, lobe_call, measure_call, rotation_call>>

NextGen ==
    \/ GenPri
    \/ JitterIterate
    \/ JitterReturn
    \/ GenFrequency
    \/ GenPulseWidth

SpecGen == InitGen /\ [][NextGen]_vars

GenReturned == gen_call # None /\ the(gen_call).result # None

GenResult == the(the(gen_call).result)

\* The PRI values a call can use as a gap.
GapValues(c) ==
    IF c.type = "fixed" THEN {c.value} ELSE {c.pattern[i] : i \in 1..Len(c.pattern)}

StrictlyIncreasing(s) == \A i \in 1..(Len(s) - 1) : s[i] < s[i + 1]

\* C7: for fixed_pri, stagger_pri and switched_pri with positive PRI values
\* and end_time > start_time, the returned pulse times are non-empty, start
\* at start_time, are strictly increasing, lie strictly below end_time, and
\* the last pulse time plus the gap that follows it is >= end_time.
C7_PulseTimesCoverHorizon ==
    (/\ GenReturned
     /\ the(gen_call).channel = "pri"
     /\ the(gen_call).type \in {"fixed", "stagger", "switched"}
     /\ GenResult.kind = "ok"
     /\ the(gen_call).end > the(gen_call).start
     /\ \A v \in GapValues(the(gen_call)) : v > 0)
        => LET pts == GenResult.series
           IN  /\ Len(pts) > 0
               /\ pts[1] = the(gen_call).start
               /\ StrictlyIncreasing(pts)
               /\ \A i \in 1..Len(pts) : pts[i] < the(gen_call).end
               /\ GenResult.current_time >= the(gen_call).end
               /\ (GenResult.current_time - pts[Len(pts)]) \in GapValues(the(gen_call))

\* C7 witness: a switched call that returned several pulses, the last of them
\* less than one gap before end_time.
C7_Witness ==
    /\ GenReturned
    /\ the(gen_call).channel = "pri"
    /\ the(gen_call).type = "switched"
    /\ the(gen_call).pattern = <<2, 5>>
    /\ the(gen_call).repetitions = <<2, 1>>
    /\ the(gen_call).end > the(gen_call).start
    /\ GenResult.kind = "ok"
    /\ Len(GenResult.series) >= 4
    /\ GenResult.current_time > the(gen_call).end

\* C8: when a switched pattern and its repetitions list have different
\* lengths, the call (switched_pri, switched_frequency, switched_pulse_width)
\* raises an error instead of returning a series.
C8_MismatchedLengthsRaise ==
    (/\ GenReturned
     /\ the(gen_call).type = "switched"
     /\ Len(the(gen_call).pattern) # Len(the(gen_call).repetitions))
        => GenResult.kind = "raise"

\* C9: in jitter_pri with mean_pri > 0, whatever the random source returns,
\* every gap between consecutive pulse times (and between the last pulse and
\* the loop's current_time) is at least 10% of mean_pri, so the pulse times
\* are strictly increasing and there are at most
\* ceil((end_time - start_time) / (mean_pri / 10)) of them.
C9_JitterGapFloor ==
    (gen_call # None /\ the(gen_call).type = "jitter" /\ the(gen_call).value > 0)
        => LET c == the(gen_call)
               pts == c.pulse_times
           IN  /\ \A i \in 1..(Len(pts) - 1) : 10 * (pts[i + 1] - pts[i]) >= c.value
               /\ StrictlyIncreasing(pts)
               /\ (Len(pts) > 0 /\ (c.result = None \/ GenResult.kind = "ok"))
                      => 10 * (c.current_time - pts[Len(pts)]) >= c.value
               /\ Len(pts) <= (IF c.end > c.start
                               THEN CeilDiv(10 * (c.end - c.start), c.value) ELSE 0)
               /\ (c.result # None /\ GenResult.kind = "ok")
                      => GenResult.series = pts

\* C9 witness: a jitter call that returned at least three pulses, one gap of
\* which was clamped to exactly 10% of the mean.
C9_Witness ==
    /\ GenReturned
    /\ the(gen_call).type = "jitter"
    /\ GenResult.kind = "ok"
    /\ Len(GenResult.series) >= 3
    /\ \E i \in 1..(Len(GenResult.series) - 1) :
          10 * (GenResult.series[i + 1] - GenResult.series[i]) = the(gen_call).value

(***************************************************************************)
(* sinc_lobe_pattern called once on arguments drawn from bounded sets, as  *)
(* Radar.calculate_power_at_angle calls it.                                *)
(***************************************************************************)
LobeOpenings == {10, 30, 90}

LobeMainPowers == {-3, 0, 3, 10}

LobeBackPowers == {-20, 0}

InitLobe ==
    /\ RunIdle
    /\ gen_call = None
    /\ detect_call = None
    /\ measure_call = None
    /\ rotation_call = None
    /\ \E th \in Angles, ml \in LobeOpenings, pm \in LobeMainPowers,
          pb \in LobeBackPowers :
          lobe_call = Some([theta |-> th, theta_ml |-> ml, P_ml |-> pm,
                            P_bl |-> pb, result |-> None])

LobeCall ==
    /\ lobe_call # None
    /\ the(lobe_call).result = None
    /\ LET c == the(lobe_call)
       IN  lobe_call' =
               Some([c EXCEPT !.result =
                        Some(sinc_lobe_pattern(c.theta, c.theta_ml, c.P_ml, c.P_bl))])
    /\ UNCHANGED <<runVars, gen_call, detect_call, measure_call, rotation_call>>

NextLobe == LobeCall

SpecLobe == InitLobe /\ [][NextLobe]_vars

LobeReturned == lobe_call # None /\ the(lobe_call).result # None

\* C10: sinc_lobe_pattern evaluated at theta = 0 returns exactly P_ml, for
\* every theta_ml, every P_ml (non-zero values included) and every P_bl.
C10_BoresightReturnsMainLobePower ==
    (LobeReturned /\ the(lobe_call).theta = 0)
        => the(the(lobe_call).result) = the(lobe_call).P_ml

(***************************************************************************)
(* Scenario.update called again and again on a constructed scenario, as    *)
(* test_full_simulation and test_long_simulation call it.  ticks counts    *)
(* the calls.                                                              *)
(***************************************************************************)
MaxUpdates == 6

InitUpdate ==
    /\ start_time \in StartTimes
    /\ end_time \in start_time..MaxEnd
    /\ time_step \in 1..MaxStep
    /\ current_time = start_time
    /\ \E rc \in RadarLists, sc \in SensorLists :
          /\ create_scenario_error(end_time, time_step, rc, sc) = "none"
          /\ radars = create_scenario(start_time, end_time, time_step, rc, sc).radars
          /\ sensors = create_scenario(start_time, end_time, time_step, rc, sc).sensors
    /\ pc = "update"
    /\ pair = 0
    /\ rows = <<>>
    /\ err = "none"
    /\ ticks = 0
    /\ detections = 0
    /\ gen_call = None
    /\ detect_call = None
    /\ lobe_call = None
    /\ measure_call = None
    /\ rotation_call = None

ScenarioUpdate ==
    /\ pc = "update"
    /\ ticks < MaxUpdates
    /\ current_time' = Scenario_update_time(current_time, time_step)
    /\ radars' = Scenario_update_radars(radars, current_time')
    /\ sensors' = Scenario_update_sensors(sensors, current_time')
    /\ ticks' = ticks + 1
    /\ UNCHANGED <<start_time, end_time, time_step, pc, pair, rows, err, detections>>
    /\ UNCHANGED callVars

NextUpdate == ScenarioUpdate

SpecUpdate == InitUpdate /\ [][NextUpdate]_vars

\* The names of a list of entities, in list order.
EntityNames(es) == [i \in 1..Len(es) |-> es[i].name]

\* C11: a radar or sensor with velocity [0, 0] has current_position equal to
\* start_position after calculate_trajectory and any number of
\* Scenario.update calls, ticks beyond end_time included.
C11_StationaryStaysAtStart ==
    /\ \A i \in 1..Len(radars) :
          ~IsMoving(radars[i].velocity)
              => radars[i].current_position = radars[i].start_position
    /\ \A i \in 1..Len(sensors) :
          ~IsMoving(sensors[i].velocity)
              => sensors[i].current_position = sensors[i].start_position

\* C11 witness: several updates were made, the last of them beyond end_time,
\* on a scenario with a stationary radar and a stationary sensor that is not
\* at the origin.
C11_Witness ==
    /\ pc = "update"
    /\ ticks >= 3
    /\ current_time > end_time
    /\ current_time - time_step > start_time
    /\ \E i \in 1..Len(radars) : ~IsMoving(radars[i].velocity)
    /\ \E i \in 1..Len(sensors) :
          ~IsMoving(sensors[i].velocity) /\ sensors[i].start_position # <<0, 0>>

\* C14: Scenario.update advances current_time by exactly time_step: after k
\* consecutive calls current_time is the initial current_time + k * time_step,
\* current_time never decreases, and start_time, end_time, time_step and the
\* radar and sensor lists are unchanged.
C14_UpdateAdvancesByTimeStep ==
    /\ [](pc = "update" => current_time = start_time + ticks * time_step)
    /\ [][/\ current_time' = current_time + time_step
          /\ current_time' >= current_time
          /\ UNCHANGED <<start_time, end_time, time_step>>
          /\ EntityNames(radars)' = EntityNames(radars)
          /\ EntityNames(sensors)' = EntityNames(sensors)]_vars

\* C14 witness: three consecutive updates have been made.
C14_Witness ==
    /\ pc = "update"
    /\ ticks = 3
    /\ current_time = start_time + 3 * time_step
    /\ Len(radars) = 2
    /\ Len(sensors) = 2

\* Where an entity in straight-line motion is at time t.
StraightLinePosition(e, t) ==
    <<e.start_position[1] + e.velocity[1] * (t - e.start_time),
      e.start_position[2] + e.velocity[2] * (t - e.start_time)>>

\* C12: at every tick at which the run loop evaluates PDW generation (the
\* last tick included), a radar or sensor with constant non-zero velocity v
\* has current_position = start_position + v * (current_time - start_time of
\* the entity).
C12_MovingFollowsStraightLine ==
    pc = "pairs" =>
        /\ \A i \in 1..Len(radars) :
              IsMoving(radars[i].velocity)
                  => radars[i].current_position
                         = StraightLinePosition(radars[i], current_time)
        /\ \A i \in 1..Len(sensors) :
              IsMoving(sensors[i].velocity)
                  => sensors[i].current_position
                         = StraightLinePosition(sensors[i], current_time)

(***************************************************************************)
(* sensor_properties.py: error models and the TOA and frequency            *)
(* measurements; radar_properties.py: the Doppler shift.  In this part     *)
(* times are whole seconds, distances are metres, velocities are m/s and   *)
(* frequencies are Hz, and the arguments are chosen so that every division *)
(* by the speed of light is exact.  A systematic model is "constant" or    *)
(* "linear"; the sample of an arbitrary model (np.random.normal /          *)
(* np.random.uniform) is an argument of the measurement.                   *)
(***************************************************************************)
SpeedOfLight == 299792458

\* "true_toa = pulse_time + (distance / speed_of_light)" in generate_pdw.
true_toa_of(pulse_time, distance) == pulse_time + distance \div SpeedOfLight

measure_toa(true_toa, r, t, toa_error_syst, TOA_arb) ==
    LET delta_Tr == r \div SpeedOfLight
        TOA_syst == systematic_error(toa_error_syst, t)
    IN  true_toa + delta_Tr + TOA_syst + TOA_arb

\* The TOA of a PDW as generate_pdw computes it:
\* sensor.measure_toa(true_toa, distance, current_time).
generate_pdw_toa(pulse_time, distance, t, toa_error_syst, TOA_arb) ==
    measure_toa(true_toa_of(pulse_time, distance), distance, t, toa_error_syst, TOA_arb)

calculate_doppler_shift(transmitted_frequency, relative_velocity) ==
    (-2 * transmitted_frequency * relative_velocity) \div SpeedOfLight

dot(a, b) == a[1] * b[1] + a[2] * b[2]

\* For positions on a common axis, where the unit vector has whole components.
calculate_relative_velocity(radar_position, radar_velocity, sensor_position, sensor_velocity) ==
    LET displacement == <<sensor_position[1] - radar_position[1],
                          sensor_position[2] - radar_position[2]>>
        distance == norm(displacement)
    IN  IF distance = 0
        THEN 0
        ELSE LET unit_vector == <<displacement[1] \div distance,
                                  displacement[2] \div distance>>
                 relative_velocity == <<sensor_velocity[1] - radar_velocity[1],
                                        sensor_velocity[2] - radar_velocity[2]>>
             IN  dot(relative_velocity, unit_vector)

apply_doppler_effect(measured_frequency, radar, sensor) ==
    LET rel_velocity == calculate_relative_velocity(radar.current_position, radar.velocity,
                                                    sensor.current_position, sensor.velocity)
    IN  measured_frequency + calculate_doppler_shift(measured_frequency, rel_velocity)

\* Mutant: the Doppler shift computed from the true frequency.
measure_frequency_shift_of_true(true_frequency, t, frequency_error_syst, f_arb, radar, sensor) ==
    LET base_frequency == true_frequency + systematic_error(frequency_error_syst, t) + f_arb
    IN  IF radar # None /\ sensor # None
        THEN base_frequency + (apply_doppler_effect(true_frequency, the(radar), the(sensor))
                               - true_frequency)
        ELSE base_frequency

\* radar and sensor are None or a present entity.
measure_frequency(true_frequency, t, frequency_error_syst, f_arb, radar, sensor) ==
    LET base_frequency == true_frequency + systematic_error(frequency_error_syst, t) + f_arb
    IN  IF radar # None /\ sensor # None
        THEN apply_doppler_effect(base_frequency, the(radar), the(sensor))
        ELSE base_frequency

(***************************************************************************)
(* One measurement of a detected pulse: the TOA as generate_pdw computes   *)
(* it, or measure_frequency, on arguments drawn from bounded sets.         *)
(***************************************************************************)
HalfC == SpeedOfLight \div 2

ErrorModel(type, error, rate) == [type |-> type, error |-> error, rate |-> rate]

ToaPulseTimes == {0, 2}

ToaDistances == {0, SpeedOfLight, 2 * SpeedOfLight}

ToaTimes == {0, 1, 3}

ToaSystematics == {ErrorModel("constant", 0, 0), ErrorModel("constant", 1, 0),
                   ErrorModel("linear", 1, 2)}

ToaSamples == {-1, 0, 1}

TrueFrequencies == {HalfC, SpeedOfLight}

FrequencyTimes == {0, 1}

FrequencySystematics == {ErrorModel("constant", 0, 0), ErrorModel("constant", HalfC, 0),
                         ErrorModel("linear", 0, HalfC)}

FrequencySamples == {-HalfC, 0}

Kinematics(position, velocity) == [current_position |-> position, velocity |-> velocity]

DopplerRadars ==
    {None} \cup {Some(Kinematics(<<0, 0>>, v)) : v \in {<<0, 0>>, <<1, 0>>}}

DopplerSensors ==
    {None} \cup {Some(Kinematics(p, v)) : p \in {<<0, 0>>, <<10, 0>>, <<0, -5>>},
                                          v \in {<<-1, 0>>, <<0, 0>>, <<1, 0>>, <<0, 1>>}}

MeasureCall(kind, pulse_time, distance, true_frequency, t, syst, arb, radar, sensor) ==
    [kind |-> kind, pulse_time |-> pulse_time, distance |-> distance,
     true_frequency |-> true_frequency, t |-> t, syst |-> syst, arb |-> arb,
     radar |-> radar, sensor |-> sensor, result |-> None]

MeasureCalls ==
    {MeasureCall("toa", p, d, 0, t, s, a, None, None) :
        p \in ToaPulseTimes, d \in ToaDistances, t \in ToaTimes,
        s \in ToaSystematics, a \in ToaSamples}
    \cup
    {MeasureCall("frequency", 0, 0, f, t, s, a, r, n) :
        f \in TrueFrequencies, t \in FrequencyTimes, s \in FrequencySystematics,
        a \in FrequencySamples, r \in DopplerRadars, n \in DopplerSensors}

InitMeasure ==
    /\ RunIdle
    /\ gen_call = None
    /\ detect_call = None
    /\ lobe_call = None
    /\ rotation_call = None
    /\ \E c \in MeasureCalls : measure_call = Some(c)

MeasurePending(kind) ==
    /\ measure_call # None
    /\ the(measure_call).kind = kind
    /\ the(measure_call).result = None

MeasureToa ==
    /\ MeasurePending("toa")
    /\ LET c == the(measure_call)
       IN  measure_call' =
               Some([c EXCEPT !.result =
                        Some(generate_pdw_toa(c.pulse_time, c.distance, c.t, c.syst, c.arb))])
    /\ UNCHANGED <<runVars, gen_call, detect_call, lobe_call, rotation_call>>

MeasureFrequency ==
    /\ MeasurePending("frequency")
    /\ LET c == the(measure_call)
       IN  measure_call' =
               Some([c EXCEPT !.result =
                        Some(measure_frequency(c.true_frequency, c.t, c.syst, c.arb,
                                               c.radar, c.sensor))])
    /\ UNCHANGED <<runVars, gen_call, detect_call, lobe_call, rotation_call>>

NextMeasure ==
    \/ MeasureToa
    \/ MeasureFrequency

SpecMeasure == InitMeasure /\ [][NextMeasure]_vars

MeasureReturned(kind) ==
    /\ measure_call # None
    /\ the(measure_call).kind = kind
    /\ the(measure_call).result # None

MeasureResult == the(the(measure_call).result)

\* C13: the TOA of a PDW equals the pulse's emission time plus exactly one
\* propagation delay r/c plus the systematic error at t plus one arbitrary
\* error sample (with zero errors: emission time + r/c).
C13_ToaHasOnePropagationDelay ==
    MeasureReturned("toa") =>
        LET c == the(measure_call)
        IN  MeasureResult = c.pulse_time + c.distance \div SpeedOfLight
                            + systematic_error(c.syst, c.t) + c.arb

\* The radial velocity of C19: the component of (sensor velocity - radar
\* velocity) along the line from the radar to the sensor, 0 when the two
\* positions coincide.
RadialVelocity(radar, sensor) ==
    LET d == <<sensor.current_position[1] - radar.current_position[1],
               sensor.current_position[2] - radar.current_position[2]>>
        v == <<sensor.velocity[1] - radar.velocity[1],
               sensor.velocity[2] - radar.velocity[2]>>
    IN  IF d = <<0, 0>> THEN 0
        ELSE IF d[1] > 0 THEN v[1]
        ELSE IF d[1] < 0 THEN -v[1]
        ELSE IF d[2] > 0 THEN v[2]
        ELSE -v[2]

\* C19: measure_frequency returns true_frequency + systematic(t) + one
\* arbitrary sample when radar or sensor is not supplied; when both are
\* supplied it adds -2 * f * v_radial / c, f being that error-perturbed
\* frequency.
C19_FrequencyErrorsThenDoppler ==
    MeasureReturned("frequency") =>
        LET c == the(measure_call)
            f == c.true_frequency + systematic_error(c.syst, c.t) + c.arb
        IN  IF c.radar = None \/ c.sensor = None
            THEN MeasureResult = f
            ELSE SpeedOfLight * (MeasureResult - f)
                     = -2 * f * RadialVelocity(the(c.radar), the(c.sensor))

\* C19 witness: a call with both entities, a non-zero error and a non-zero
\* radial velocity, whose result differs from the unshifted frequency.
C19_Witness ==
    /\ MeasureReturned("frequency")
    /\ the(measure_call).radar # None
    /\ the(measure_call).sensor # None
    /\ systematic_error(the(measure_call).syst, the(measure_call).t)
           + the(measure_call).arb # 0
    /\ RadialVelocity(the(the(measure_call).radar), the(the(measure_call).sensor)) # 0
    /\ MeasureResult # the(measure_call).true_frequency
                        + systematic_error(the(measure_call).syst, the(measure_call).t)
                        + the(measure_call).arb

(***************************************************************************)
(* Properties of the run from the loaded configuration on.                 *)
(***************************************************************************)
\* create_scenario has returned: the run loop is running or has stopped.
Constructed == pc \in {"loop", "pairs", "done", "raised"}

\* The 1-based position in a list of entities of the one named name.
IndexOf(es, name) == MinOf({i \in 1..Len(es) : es[i].name = name})

\* The tick, the sensor's position and the radar's position of a row.
RowKey(row) == <<row.Time, IndexOf(sensors, row.SensorID), IndexOf(radars, row.RadarID)>>

KeyBefore(a, b) ==
    \/ a[1] < b[1]
    \/ a[1] = b[1] /\ a[2] < b[2]
    \/ a[1] = b[1] /\ a[2] = b[2] /\ a[3] < b[3]

\* C15: the table holds one row per successful detection, in generation
\* order: by tick, within a tick by the sensor's position in
\* scenario.sensors, within a sensor by the radar's position in
\* scenario.radars (so the Time column is non-decreasing).
C15_RowsInGenerationOrder ==
    Constructed =>
        /\ Len(rows) = detections
        /\ \A i \in 1..Len(rows), j \in 1..Len(rows) :
              i < j => KeyBefore(RowKey(rows[i]), RowKey(rows[j]))

KnownRotationTypes == {"constant", "varying"}

KnownPatternTypes == {"fixed", "stagger", "switched", "jitter"}

KnownLobeTypes == {"Sinc"}

Radar_types_known(r) ==
    /\ r.rotation_type \in KnownRotationTypes
    /\ r.pri_type \in KnownPatternTypes
    /\ r.frequency_type \in KnownPatternTypes
    /\ r.pulse_width_type \in KnownPatternTypes
    /\ r.lobe_pattern_type \in KnownLobeTypes

Sensor_types_known(s) ==
    /\ s.toa_error_syst.type \in KnownErrorTypes
    /\ s.toa_error_arb.type \in KnownErrorTypes

\* C16: an unknown value in a type field of the configuration raises while
\* the entities are constructed and their series generated, before the first
\* tick, and never during the run loop: once create_scenario has returned
\* every type field holds a known value, and the loop is never ended by the
\* error of an unknown type.
C16_UnknownTypeRaisesBeforeLoop ==
    /\ Constructed =>
          /\ \A i \in 1..Len(radars) : Radar_types_known(radars[i])
          /\ \A i \in 1..Len(sensors) : Sensor_types_known(sensors[i])
    /\ ~(pc = "raised" /\ err = "ValueError")

\* C17: every constructed Sensor has detection_levels and
\* detection_probabilities of equal length; a configuration whose lists
\* differ in length yields no usable Sensor.
C17_LevelsMatchProbabilities ==
    Constructed =>
        \A i \in 1..Len(sensors) :
            Len(sensors[i].detection_levels) = Len(sensors[i].detection_probabilities)

\* The value get_current_frequency / get_current_pulse_width must return for a
\* grid: its first entry.
FirstEntry(series) == [kind |-> "value", value |-> series[1]]

\* C18: for every frequency and pulse-width variant (fixed, stagger, switched,
\* jitter), get_current_frequency and get_current_pulse_width return the first
\* entry of the grid computed at construction, at every tick, whatever
\* current_time is.
C18_CurrentValueIsFirstGridEntry ==
    pc = "update" =>
        \A i \in 1..Len(radars) :
            LET f == Radar_calculate_frequencies(radars[i], end_time).series
                w == Radar_calculate_pulse_widths(radars[i], end_time).series
            IN  /\ Len(f) > 0 => Radar_get_current_frequency(radars[i]) = FirstEntry(f)
                /\ Len(w) > 0 => Radar_get_current_pulse_width(radars[i]) = FirstEntry(w)

\* C18 witness: the clock has passed the first grid interval of a radar whose
\* frequency grid and pulse-width grid each hold two different entries.
C18_Witness ==
    /\ pc = "update"
    /\ ticks >= 2
    /\ \E i \in 1..Len(radars) :
          LET f == the(radars[i].frequencies)
              w == the(radars[i].pulse_widths)
          IN  /\ radars[i].frequency_type \in {"stagger", "jitter"}
              /\ Len(f) >= 2 /\ f[1] # f[2]
              /\ Len(w) >= 2 /\ w[1] # w[2]
              /\ current_time >= radars[i].start_time + GridInterval
              /\ Radar_get_current_frequency(radars[i]).value = f[1]

(***************************************************************************)
(* The end-to-end scenario: one stationary radar with a fixed PRI of 1 ms, *)
(* one stationary sensor, the horizon [0, 0.01] s and a time step of       *)
(* 100 us.  The sensor either detects with certainty or never detects.     *)
(***************************************************************************)
RadarEndToEnd == RadarConfig("R7", 0, 0, "fixed", [pri |-> GridInterval], 0)

InitEndToEnd ==
    /\ start_time = 0
    /\ end_time = GridInterval * GridInterval
    /\ time_step = TimeWindow
    /\ current_time = start_time
    /\ radars = <<RadarEndToEnd>>
    /\ sensors \in {<<SensorSure>>, <<SensorDeaf>>}
    /\ pc = "create"
    /\ pair = 0
    /\ rows = <<>>
    /\ err = "none"
    /\ ticks = 0
    /\ detections = 0
    /\ gen_call = None
    /\ detect_call = None
    /\ lobe_call = None
    /\ measure_call = None
    /\ rotation_call = None

SpecEndToEnd == InitEndToEnd /\ [][Next]_vars

\* The pulses the radar emits in [start_time, end_time).
PulsesInHorizon(r) == {k \in 1..Len(the(r.pulse_times)) : the(r.pulse_times)[k] >= start_time /\ the(r.pulse_times)[k] < end_time}

\* C20: in the end-to-end scenario with the sensor that detects with
\* certainty the run ends normally, every pulse emitted in
\* [start_time, end_time) has produced exactly one PDW row (10 rows), and the
\* emission times of consecutive rows differ by exactly one PRI.
C20_EndToEndOneRowPerPulse ==
    sensors[1].name = SensorSure.name =>
        /\ pc # "raised"
        /\ pc = "done" =>
              /\ Len(rows) = Cardinality(PulsesInHorizon(radars[1]))
              /\ Len(rows) = GridInterval
              /\ \A k \in 1..(Len(rows) - 1) :
                    rows[k + 1].pdw.pulse_time - rows[k].pdw.pulse_time
                        = radars[1].pri_params.pri

(***************************************************************************)
(* Lookups in the precomputed series.                                      *)
(***************************************************************************)
\* Whether q lies between the first and the last time of a series.
InsideGrid(series, q) == Len(series) > 0 /\ series[1][1] <= q /\ q <= series[Len(series)][1]

\* The entry of a series with the greatest time <= q, for q inside the grid.
LeftNearest(series, q) == series[CHOOSE k \in 1..Len(series) : series[k][1] <= q /\ \A j \in 1..Len(series) : series[j][1] <= q => j <= k]

\* C21: after Scenario.update, for a query time inside the trajectory grid
\* the current_position of every radar and sensor is that of the entry with
\* the greatest grid time <= current_time, and Radar.update_rotation picks
\* the angle and period of the entry with the greatest grid time <=
\* current_time; never an entry whose time is greater than the query.
C21_LookupIsLeftNearest ==
    (pc = "update" /\ ticks >= 1) =>
        /\ \A i \in 1..Len(radars) :
              LET traj == the(radars[i].trajectory)
                  data == the(radars[i].rotation_data)
                  turned == Radar_update_rotation(radars[i], current_time)
              IN  /\ InsideGrid(traj, current_time) =>
                        radars[i].current_position
                            = <<LeftNearest(traj, current_time)[2],
                                LeftNearest(traj, current_time)[3]>>
                  /\ InsideGrid(data, current_time) =>
                        /\ turned.current_angle = LeftNearest(data, current_time)[2]
                        /\ turned.current_period = LeftNearest(data, current_time)[3]
        /\ \A i \in 1..Len(sensors) :
              LET traj == the(sensors[i].trajectory)
              IN  InsideGrid(traj, current_time) =>
                      sensors[i].current_position
                          = <<LeftNearest(traj, current_time)[2],
                              LeftNearest(traj, current_time)[3]>>

\* Whether pair k is the first (level, probability) pair of the call whose
\* level the amplitude strictly exceeds.
FirstExceededPair(c, k) ==
    /\ k <= Len(c.detection_levels)
    /\ k <= Len(c.detection_probabilities)
    /\ c.amplitude > c.detection_levels[k]
    /\ \A j \in 1..(k - 1) : c.amplitude <= c.detection_levels[j]

\* C22: for an amplitude not above saturation_level, the outcome of
\* detect_pulse is the Bernoulli draw with the probability of the first pair,
\* in list order, whose level the amplitude strictly exceeds: always True for
\* probability 1, always False for probability 0, whatever the later pairs
\* are.
C22_FirstExceededLevelDecides ==
    (DetectReturned /\ the(detect_call).amplitude <= the(detect_call).saturation_level) =>
        \A k \in 1..Len(the(detect_call).detection_levels) :
            FirstExceededPair(the(detect_call), k) =>
                /\ DetectResult = (the(detect_call).draw < the(detect_call).detection_probabilities[k])
                /\ the(detect_call).detection_probabilities[k] = 100 => DetectResult = TRUE
                /\ the(detect_call).detection_probabilities[k] = 0 => DetectResult = FALSE

\* C22 witness: the amplitude equals the first level and exceeds the second;
\* the second pair, of probability 0, decided, although the first pair has
\* probability 100.
C22_Witness ==
    /\ DetectReturned
    /\ the(detect_call).detection_levels = <<-60, -80>>
    /\ the(detect_call).detection_probabilities = <<100, 0>>
    /\ the(detect_call).amplitude = -60
    /\ the(detect_call).saturation_level = -40
    /\ FirstExceededPair(the(detect_call), 2)
    /\ DetectResult = FALSE

\* The gaps between consecutive entries of a series of pulse times.
Gaps(pts) == [k \in 1..(Len(pts) - 1) |-> pts[k + 1] - pts[k]]

\* Whether every gap is the entry of the block at the gap's place, the block
\* being repeated cyclically.
CyclesThrough(gaps, block) == \A k \in 1..Len(gaps) : gaps[k] = block[((k - 1) % Len(block)) + 1]

\* C23: for switched_pri with a pattern and repetitions of equal length the
\* gaps between consecutive pulse times are pattern[0] repeated
\* repetitions[0] times, then pattern[1] repeated repetitions[1] times, and
\* so on, the whole block repeated cyclically up to end_time; for stagger_pri
\* the k-th gap is pattern[k mod len(pattern)].
C23_GapsFollowPattern ==
    (GenReturned /\ the(gen_call).channel = "pri" /\ GenResult.kind = "ok") =>
        /\ (the(gen_call).type = "stagger" /\ Len(the(gen_call).pattern) > 0) =>
              CyclesThrough(Gaps(GenResult.series), the(gen_call).pattern)
        /\ (the(gen_call).type = "switched"
              /\ Len(the(gen_call).pattern) = Len(the(gen_call).repetitions)) =>
              LET block == switched_block(the(gen_call).pattern,
                                          the(gen_call).repetitions, 1)
              IN  Len(GenResult.series) > 1 =>
                      /\ Len(block) > 0
                      /\ CyclesThrough(Gaps(GenResult.series), block)

\* C23 witness: a switched call with repetitions 2 and 1 returned pulses past
\* one whole block, with the gaps 2, 2, 5, 2.
C23_Witness ==
    /\ GenReturned
    /\ the(gen_call).channel = "pri"
    /\ the(gen_call).type = "switched"
    /\ the(gen_call).pattern = <<2, 5>>
    /\ the(gen_call).repetitions = <<2, 1>>
    /\ GenResult.kind = "ok"
    /\ Len(GenResult.series) >= 5
    /\ SubSeq(Gaps(GenResult.series), 1, 4) = <<2, 2, 5, 2>>

\* The sensor and the radar of the pair the run loop is at.
PairSensor == sensors[(pair \div Len(radars)) + 1]

PairRadar == radars[(pair % Len(radars)) + 1]

\* Whether p is the earliest pulse time of radar r that is >= t.
EarliestPulseFrom(r, t, p) ==
    /\ p >= t
    /\ \E k \in 1..Len(the(r.pulse_times)) : the(r.pulse_times)[k] = p
    /\ \A k \in 1..Len(the(r.pulse_times)) :
          the(r.pulse_times)[k] >= t => the(r.pulse_times)[k] >= p

\* Whether radar r has a pulse time p with t <= p <= t + 100 us.
HasPulseInWindow(r, t) ==
    \E k \in 1..Len(the(r.pulse_times)) :
        the(r.pulse_times)[k] >= t /\ the(r.pulse_times)[k] <= t + TimeWindow

\* A step of the run loop that is one call of generate_pdw.
GeneratePdwStep == pc = "pairs" /\ (pair' = pair + 1 \/ pc' = "raised")

\* C24: a call of generate_pdw at time t goes on to the pulse (detection,
\* measurement, a PDW) only for the radar's earliest pulse time p >= t and
\* only if p <= t + 100 us; when the radar has no pulse in [t, t + 100 us]
\* the call returns None: no row is appended, nothing is detected, nothing
\* is raised and the loop goes to the next pair.
C24_OnlyNextPulseInWindow ==
    [][GeneratePdwStep =>
          /\ (rows' # rows \/ detections' # detections \/ pc' = "raised") =>
                /\ HasPulseInWindow(PairRadar, current_time)
                /\ EarliestPulseFrom(PairRadar, current_time,
                                     the(Radar_get_next_pulse_time(PairRadar, current_time)))
          /\ rows' # rows =>
                rows'[Len(rows')].pdw.pulse_time
                    = the(Radar_get_next_pulse_time(PairRadar, current_time))
          /\ ~HasPulseInWindow(PairRadar, current_time) =>
                rows' = rows /\ detections' = detections /\ pc' = pc /\ pair' = pair + 1
      ]_vars

\* C24 witness: the loop has passed a pair whose sensor detects with
\* certainty and whose radar has pulses left, the next of them beyond the
\* window; nothing was detected and no row was appended.
C24_Witness ==
    /\ pc = "pairs"
    /\ pair = 1
    /\ sensors[1].name = SensorSure.name
    /\ Radar_get_next_pulse_time(radars[1], current_time) # None
    /\ the(Radar_get_next_pulse_time(radars[1], current_time)) > current_time + TimeWindow
    /\ detections = 0
    /\ rows = <<>>

\* C25: the derived series of a radar (pulse_times, frequencies,
\* pulse_widths, rotation_data, trajectory) are those calculate_trajectory
\* computed before the loop: no Scenario.update and no generate_pdw call
\* changes them during the run.
C25_SeriesComputedOnce ==
    Constructed =>
        \A i \in 1..Len(radars) :
            LET computed == Radar_calculate_trajectory(radars[i], end_time, time_step)
            IN  /\ radars[i].pulse_times = computed.pulse_times
                /\ radars[i].frequencies = computed.frequencies
                /\ radars[i].pulse_widths = computed.pulse_widths
                /\ radars[i].rotation_data = computed.rotation_data
                /\ radars[i].trajectory = computed.trajectory
                /\ radars[i].pulse_times # None

\* C25 witness: in the second tick or later, after updates and generate_pdw
\* calls, on a moving radar with several pulse times and trajectory points.
C25_Witness ==
    /\ pc = "pairs"
    /\ ticks >= 2
    /\ pair >= 1
    /\ \E i \in 1..Len(radars) :
          /\ IsMoving(radars[i].velocity)
          /\ radars[i].current_position # radars[i].start_position
          /\ Len(the(radars[i].pulse_times)) >= 2
          /\ Len(the(radars[i].trajectory)) >= 3

\* Whether generate_pdw gets as far as detect_pulse for a pulse in the window:
\* the lobe pattern is known and the grids have a first entry.
ReachesDetection(r) ==
    /\ r.lobe_pattern_type = "Sinc"
    /\ Radar_get_current_frequency(r).kind # "raise"
    /\ Radar_get_current_pulse_width(r).kind # "raise"

\* The amplitude generate_pdw hands to detect_pulse.
TrueAmplitude(s, r) ==
    sinc_lobe_pattern(arctan2(s.current_position[2] - r.current_position[2],
                              s.current_position[1] - r.current_position[1]),
                      r.theta_ml, r.P_ml, r.P_bl)

\* C26: the absence of a pulse is a normal outcome.  When the radar's
\* pulse_times is uncomputed or exhausted or has no pulse in the window, or
\* when detect_pulse returns False, generate_pdw returns None without
\* raising; the step of the run loop then appends nothing, raises nothing
\* and goes on to the next pair.
C26_NoPulseIsNormal ==
    /\ []((pc = "pairs" /\ pair < NumPairs) =>
            \A draw \in Draws :
                /\ generate_pdw(PairSensor, [PairRadar EXCEPT !.pulse_times = None],
                                current_time, draw) = ReturnNone(FALSE)
                /\ ~HasPulseInWindow(PairRadar, current_time) =>
                      generate_pdw(PairSensor, PairRadar, current_time, draw)
                          = ReturnNone(FALSE)
                /\ (/\ HasPulseInWindow(PairRadar, current_time)
                     /\ ReachesDetection(PairRadar)
                     /\ ~Sensor_detect_pulse(PairSensor,
                                             TrueAmplitude(PairSensor, PairRadar), draw)) =>
                      generate_pdw(PairSensor, PairRadar, current_time, draw)
                          = ReturnNone(FALSE))
    /\ [][(/\ GeneratePdwStep
           /\ \A draw \in Draws :
                 generate_pdw(PairSensor, PairRadar, current_time, draw).kind = "none")
              => /\ rows' = rows
                 /\ err' = err
                 /\ pc' = "pairs"
                 /\ pair' = pair + 1]_vars

\* C26 witness: the pulses of the radar are exhausted at a tick, the sensor
\* detects with certainty, and the loop went past the pair without a row or
\* an exception.
C26_Witness ==
    /\ pc = "pairs"
    /\ pair = 1
    /\ err = "none"
    /\ rows = <<>>
    /\ sensors[1].name = SensorSure.name
    /\ Len(the(radars[1].pulse_times)) > 0
    /\ Radar_get_next_pulse_time(radars[1], current_time) = None

(***************************************************************************)
(* varying_rotation_period called once on arguments drawn from bounded     *)
(* sets, as calculate_rotation_angles calls it for rotation_type 'varying'.*)
(***************************************************************************)
RotationTimes == 0..3

RotationStarts == 0..2

RotationAngles == {0, 90}

RotationPeriods == {2, 4}

RotationAmplitudes == {-4, 0, 2}

RotationFrequencies == {-1, 1, 2}

RotationPhases == {0, 90, 180}

InitRotation ==
    /\ RunIdle
    /\ gen_call = None
    /\ detect_call = None
    /\ lobe_call = None
    /\ measure_call = None
    /\ \E t \in RotationTimes, t0 \in RotationStarts, alpha0 \in RotationAngles,
          T_rot \in RotationPeriods, A \in RotationAmplitudes,
          s \in RotationFrequencies, phi0 \in RotationPhases :
          rotation_call = Some([t |-> t, t0 |-> t0, alpha0 |-> alpha0, T_rot |-> T_rot,
                                A |-> A, s |-> s, phi0 |-> phi0, result |-> None])

RotationCall ==
    /\ rotation_call # None
    /\ the(rotation_call).result = None
    /\ LET c == the(rotation_call)
       IN  rotation_call' =
               Some([c EXCEPT !.result =
                        Some(varying_rotation_period(c.t, c.t0, c.alpha0, c.T_rot,
                                                     c.A, c.s, c.phi0))])
    /\ UNCHANGED <<runVars, gen_call, detect_call, lobe_call, measure_call>>

NextRotation == RotationCall

SpecRotation == InitRotation /\ [][NextRotation]_vars

RotationReturned == rotation_call # None /\ the(rotation_call).result # None

\* C27: for the varying rotation model the angle at the start time is the
\* initial angle: varying_rotation_period(t0, t0, alpha0, T_rot, A, s, phi0)
\* = alpha0 for every A, s # 0 and phi0.
C27_AngleAtStartIsInitialAngle ==
    (RotationReturned /\ the(rotation_call).t = the(rotation_call).t0)
        => the(the(rotation_call).result) = the(rotation_call).alpha0

(***************************************************************************)
(* sensor_properties.py measure_amplitude: the received amplitude          *)
(* P0_dB - Pr + P_theta of a pulse, for a power and a distance that are    *)
(* powers of ten, so that the logarithms are exact.                        *)
(***************************************************************************)
PowersOfTen == <<1, 10, 100, 1000, 10000>>

IsPowerOfTen(n) == \E k \in 1..Len(PowersOfTen) : PowersOfTen[k] = n

\* np.log10 of a power of ten.
log10(n) == (CHOOSE k \in 1..Len(PowersOfTen) : PowersOfTen[k] = n) - 1

\* "P0_dB - Pr + P_theta" without the error terms.
received_amplitude(r, P_theta, P0) == 10 * log10(P0) - 20 * log10(r) + P_theta

\* The distance generate_pdw computes for the pair the loop is at.
PairDistance ==
    norm(<<PairSensor.current_position[1] - PairRadar.current_position[1],
           PairSensor.current_position[2] - PairRadar.current_position[2]>>)

\* Whether amplitude a is above the saturation level or a detection level of
\* sensor s.
AboveSomeLevel(s, a) ==
    \/ a > s.saturation_level
    \/ \E k \in 1..Len(s.detection_levels) : a > s.detection_levels[k]

\* C29: the detection decision of generate_pdw is taken on the received
\* amplitude of the pulse (radar power in dB minus range loss plus pattern
\* gain): a pulse in the window whose error-free received amplitude is above
\* neither the saturation level nor any detection level is not detected and
\* produces no row, whatever the distance and the radar power are.
C29_DetectionOnReceivedAmplitude ==
    [][(/\ GeneratePdwStep
        /\ HasPulseInWindow(PairRadar, current_time)
        /\ ReachesDetection(PairRadar)
        /\ IsPowerOfTen(PairDistance)
        /\ IsPowerOfTen(PairRadar.power)
        /\ ~AboveSomeLevel(PairSensor,
                           received_amplitude(PairDistance,
                                              TrueAmplitude(PairSensor, PairRadar),
                                              PairRadar.power)))
          => (detections' = detections /\ rows' = rows /\ pc' = "pairs")]_vars

\* C30: for every scenario with end_time > start_time, horizons shorter than
\* the 1 ms grid interval included, the frequency and pulse-width grids of
\* every radar are non-empty after calculate_trajectory, so
\* get_current_frequency and get_current_pulse_width return a value and the
\* run never ends with their IndexError.
C30_GridsNonEmpty ==
    (Constructed /\ end_time > start_time) =>
        /\ \A i \in 1..Len(radars) :
              /\ Len(the(radars[i].frequencies)) > 0
              /\ Len(the(radars[i].pulse_widths)) > 0
              /\ Radar_get_current_frequency(radars[i]).kind = "value"
              /\ Radar_get_current_pulse_width(radars[i]).kind = "value"
        /\ err # "IndexError"
====
